---- MODULE Spec2Model ----
(***************************************************************************)
(* News ingestion pipeline: the Harvester (NaverNewsCollector.collect),    *)
(* the Classifier (NewsCrawler.filter_urls) and the Crawler                *)
(* (NewsCrawler.crawl_news and its pool of _process_single_news tasks),    *)
(* all working against one relational store (tables naver_news and         *)
(* crawled_news).                                                          *)
(***************************************************************************)
EXTENDS Integers, Sequences, FiniteSets, TLC

(***************************************************************************)
(* Bounds of the model.                                                    *)
(***************************************************************************)
NUrls == 2          \* distinct article URLs the provider can return
MaxPageLen == 2     \* items in one provider response
MaxTotal == 3       \* largest target count passed to collect()
MaxHarvests == 2    \* invocations of collect() in one behaviour
NProcs == 2         \* crawler processes (NewsCrawler instances) on the same store
MaxWorkers == 2     \* largest pool width max_workers
MaxHostLen == 5     \* longest network location of the classification rule's check
MaxEntryLen == 2    \* longest line of the blocklist file in that check

(***************************************************************************)
(* Program constants.                                                      *)
(***************************************************************************)
PageSize == 100     \* display = min(100, total - collected)
ApiWindow == 1000   \* if start > 1000: break

NULL == "NULL"

VARIABLES
    naver_news,      \* table naver_news: sequence of rows, news_id = index
    crawled_news,    \* table crawled_news: sequence of rows [news_id, text]
    provider,        \* the search provider: live (any response) or a stub with one fixed page
    hpc,             \* Harvester: "idle", "loop" (inside collect's while), "done"
    hruns,           \* number of collect() invocations started
    total,           \* collect(): total
    collected,       \* collect(): collected
    inserted_total,  \* collect(): inserted_total
    start,           \* collect(): start
    existing_urls,   \* collect(): existing_urls
    collected_urls,  \* self.collected_urls
    hresult,         \* value returned by the last collect(), -1 before
    nreq,            \* history: page requests issued by this invocation
    stalled,         \* history: the last iteration left inserted_total as it was
    hadded,          \* history: rows this invocation durably added to naver_news
    lastBatch,       \* history: new_items of the last insert_news call
    lastErrs,        \* history: indices of lastBatch whose INSERT raised
    lastRowcounts,   \* history: cursor.rowcount per item of lastBatch (-1: raised)
    req_start,       \* history: start of the last search_news call (0: none yet)
    req_display,     \* history: display of the last search_news call (0: none yet)
    page_failed,     \* history: the last search_news call met an error
    filtered_domains, \* self.filtered_domains
    filter_version,  \* self.filter_version
    max_workers,     \* self.max_workers
    ppc,             \* per process: where it is in run()
    filtered_ids,    \* per process: filter_urls(): filtered_ids
    passed_ids,      \* per process: filter_urls(): passed_ids
    filtered_count,  \* per process: value returned by filter_urls(), NULL before
    tasks,           \* per process: the submitted _process_single_news tasks
    crawl_result,    \* per process: value returned by crawl_news(), NULL before
    run_result,      \* per process: value returned by run(), NULL before
    fault_at         \* history, per process: where filter_urls() met its error

storeVars == <<naver_news, crawled_news>>
harvVars == <<provider, hpc, hruns, total, collected, inserted_total, start,
              existing_urls, collected_urls, hresult, nreq, stalled, hadded,
              lastBatch, lastErrs, lastRowcounts, req_start, req_display,
              page_failed>>
crawlVars == <<filtered_domains, filter_version, max_workers, ppc, filtered_ids,
               passed_ids, filtered_count, tasks, crawl_result, run_result,
               fault_at>>
vars == <<storeVars, harvVars, crawlVars>>

(***************************************************************************)
(* URLs, items and pages.                                                  *)
(***************************************************************************)
\* A min that is its first argument.
MinIsFirst(a, b) == a

Min(a, b) == IF a < b THEN a ELSE b

\* A URL in parsed form: its network location (a string, as a sequence of
\* characters) and a path.
HostOf(i) == IF i % 2 = 1 THEN <<"a">> ELSE <<"b">>
Url(i) == [netloc |-> HostOf(i), path |-> i]
Urls == {Url(i) : i \in 1..NUrls}
\* Two publication dates, to tell an item from a later item with the same link.
PubDates == {1, 2}

\* One item of a provider response: item['link'], item['pubDate'].
Items == [link : Urls, pubDate : PubDates]

SeqsUpTo(S, n) == UNION {[1..k -> S] : k \in 0..n}
Pages == SeqsUpTo(Items, MaxPageLen)

StoredUrls(table) == {table[i].url : i \in 1..Len(table)}

(***************************************************************************)
(* NaverNewsCollector                                                      *)
(***************************************************************************)
\* parse_item: the fields of the row to insert.
parse_item(item) == [url |-> item.link, pub_date |-> item.pubDate]

\* The row INSERT INTO naver_news creates: the listed columns, the others at
\* their defaults.
NewRecord(parsed) ==
    [url |-> parsed.url, pub_date |-> parsed.pub_date,
     crawl_status |-> "pending", url_filter_version |-> NULL,
     crawl_attempt_count |-> 0]

\* A plain INSERT, with no ON CONFLICT clause and no unique key to stop it.
InsertRowNoConflict(table, parsed) == Append(table, NewRecord(parsed))

\* INSERT ... ON CONFLICT (url) DO NOTHING on a table: the table afterwards.
InsertRow(table, parsed) ==
    IF parsed.url \in StoredUrls(table) THEN table
    ELSE Append(table, NewRecord(parsed))

\* cursor.rowcount of that statement.
Rowcount(table, parsed) == Len(InsertRow(table, parsed)) - Len(table)

\* One pass of the for loop of insert_news, on item i. committed: the table
\* as last committed; st.table: the table as the open transaction sees it;
\* st.inserted: the local `inserted`. An INSERT that raises (i \in errs) is
\* answered by self.conn.rollback(), which ends the open transaction, and the
\* loop continues.
InsertStep(committed, st, news_items, i, errs) ==
    IF i \in errs
    THEN [table |-> committed, inserted |-> st.inserted]
    ELSE [table |-> InsertRow(st.table, news_items[i]),
          inserted |-> st.inserted + Rowcount(st.table, news_items[i])]

\* The passes on items lo..hi in order: those of the first half of the range,
\* then those of the second half on the table the first half left; `inserted`
\* has grown by what the two halves added to it.
RECURSIVE InsertRange(_, _, _, _, _, _)
InsertRange(committed, st, news_items, lo, hi, errs) ==
    IF lo > hi THEN st
    ELSE IF lo = hi THEN InsertStep(committed, st, news_items, lo, errs)
    ELSE LET mid == (lo + hi) \div 2
             half == InsertRange(committed, st, news_items, lo, mid, errs)
             rest == InsertRange(committed, [table |-> half.table, inserted |-> 0],
                                 news_items, mid + 1, hi, errs)
         IN [inserted |-> half.inserted + rest.inserted, table |-> rest.table]

\* The for loop of insert_news from item i on, and self.conn.commit().
InsertLoop(committed, work, news_items, i, errs, inserted) ==
    InsertRange(committed, [table |-> work, inserted |-> inserted],
                news_items, i, Len(news_items), errs)

insert_news(table, news_items, errs) ==
    IF news_items = <<>> THEN [table |-> table, inserted |-> 0]
    ELSE InsertLoop(table, table, news_items, 1, errs, 0)

\* cursor.rowcount seen at each item lo..hi of the batch (-1 where the INSERT
\* raised), and the table the open transaction sees after them.
RECURSIVE RowcountRange(_, _, _, _, _, _)
RowcountRange(committed, work, news_items, lo, hi, errs) ==
    IF lo > hi THEN [counts |-> <<>>, table |-> work]
    ELSE IF lo = hi
    THEN [counts |-> IF lo \in errs THEN <<-1>>
                     ELSE <<Rowcount(work, news_items[lo])>>,
          table |-> InsertStep(committed, [table |-> work, inserted |-> 0],
                               news_items, lo, errs).table]
    ELSE LET mid == (lo + hi) \div 2
             half == RowcountRange(committed, work, news_items, lo, mid, errs)
             rest == RowcountRange(committed, half.table, news_items, mid + 1, hi, errs)
         IN [counts |-> half.counts \o rest.counts, table |-> rest.table]

RowcountLoop(committed, work, news_items, i, errs) ==
    RowcountRange(committed, work, news_items, i, Len(news_items), errs).counts

\* The dedup loop of collect() on items lo..hi in order (the first half of
\* the range, then the second): the parsed items whose URL is in neither set,
\* each URL added to the seen-set as it is taken.
RECURSIVE DedupRange(_, _, _, _, _)
DedupRange(items, lo, hi, existing, seen) ==
    IF lo > hi THEN [new_items |-> <<>>, seen |-> seen]
    ELSE IF lo = hi
    THEN LET url == items[lo].link
             skip == url \in existing \/ url \in seen
         IN [new_items |-> IF skip THEN <<>> ELSE <<parse_item(items[lo])>>,
             seen |-> IF skip THEN seen ELSE seen \cup {url}]
    ELSE LET mid == (lo + hi) \div 2
             half == DedupRange(items, lo, mid, existing, seen)
             rest == DedupRange(items, mid + 1, hi, existing, half.seen)
         IN [new_items |-> half.new_items \o rest.new_items, seen |-> rest.seen]

Dedup(items, existing, seen) == DedupRange(items, 1, Len(items), existing, seen)

\* The provider's results by rank: the result at rank k is the article Url(k).
\* The n results from rank s on.
RankedPage(s, n) == [j \in 1..n |-> [link |-> Url(s + j - 1), pubDate |-> 1]]

\* What the provider may answer to a request for `display` items from `start`
\* on: the stub its page; the ranked provider the results from that rank on,
\* as many as asked for or one only; the live provider any page of at most
\* that size.
Responses(display) ==
    IF provider.fixed
    THEN {provider.page}
    ELSE IF provider.ranked
    THEN {RankedPage(start, n) : n \in {1, display}}
    ELSE {p \in Pages : Len(p) <= display}

\* The INSERTs of a batch that may raise: any of them; for the long batches
\* of the ranked provider none, or all (the store is down).
StoreErrors(new_items) ==
    IF provider.ranked
    THEN {{}, DOMAIN new_items}
    ELSE SUBSET DOMAIN new_items

\* collect() up to the while loop. existing_urls are the stored URLs whose
\* api_request_date lies in the last 3 days: some subset of the stored URLs.
HarvestStart(t, ex) ==
    /\ hpc \in {"idle", "done"}
    /\ hruns < MaxHarvests
    /\ hpc' = "loop"
    /\ hruns' = hruns + 1
    /\ total' = t
    /\ existing_urls' = ex
    /\ collected_urls' = {}
    /\ collected' = 0
    /\ inserted_total' = 0
    /\ start' = 1
    /\ hresult' = -1
    /\ nreq' = 0
    /\ stalled' = FALSE
    /\ hadded' = 0
    /\ lastBatch' = <<>>
    /\ lastErrs' = {}
    /\ lastRowcounts' = <<>>
    /\ req_start' = 0
    /\ req_display' = 0
    /\ page_failed' = FALSE
    /\ UNCHANGED <<storeVars, provider, crawlVars>>

\* What requests.get, raise_for_status and response.json() come to: a JSON
\* document with its items, or an error (network, HTTP status, decoding).
HttpOk(items) == [ok |-> TRUE, items |-> items]
HttpError == [ok |-> FALSE, items |-> <<>>]

\* A search_news that lets the error of the request out to its caller.
search_news_reraises(response) ==
    IF response.ok THEN [kind |-> "json", items |-> response.items]
    ELSE [kind |-> "raised", items |-> <<>>]

\* search_news: the document, or None after `except Exception` (logged).
search_news(response) ==
    IF response.ok THEN [kind |-> "json", items |-> response.items]
    ELSE [kind |-> "None", items |-> <<>>]

\* One iteration whose request brings no items: `not result` (None) or
\* `not result.get('items')`: break, and collect() returns inserted_total. An
\* exception out of search_news would leave collect(), which has no handler.
HarvestNoItems(response) ==
    /\ hpc = "loop"
    /\ collected < total
    /\ ~provider.fixed
    /\ response.items = <<>>
    /\ LET result == search_news(response)
       IN IF result.kind = "raised"
          THEN hpc' = "raised" /\ hresult' = hresult
          ELSE hpc' = "done" /\ hresult' = inserted_total
    /\ nreq' = nreq + 1
    /\ req_start' = start
    /\ req_display' = Min(PageSize, total - collected)
    /\ page_failed' = ~response.ok
    /\ UNCHANGED <<storeVars, provider, hruns, total, collected, inserted_total,
                   start, existing_urls, collected_urls, stalled, hadded,
                   lastBatch, lastErrs, lastRowcounts, crawlVars>>

HarvestPageNone == \E response \in {HttpError, HttpOk(<<>>)} : HarvestNoItems(response)

\* The loop's exits with the stall break left out.
LoopEndsNoStall(inserted_now, prev_inserted_total, start_now, collected_now) ==
    \/ start_now > ApiWindow
    \/ ~(collected_now < total)

\* The loop's exits with the window break left out.
LoopEndsNoWindow(inserted_now, prev_inserted_total, start_now, collected_now) ==
    \/ inserted_now = prev_inserted_total
    \/ ~(collected_now < total)

\* The loop's exits after a page was inserted: the stall break, the window
\* break, or the while condition.
LoopEnds(inserted_now, prev_inserted_total, start_now, collected_now) ==
    \/ inserted_now = prev_inserted_total
    \/ start_now > ApiWindow
    \/ ~(collected_now < total)

\* One iteration with items: dedup, insert_news, the counters, the breaks.
HarvestPageItems(items, errs) ==
    /\ hpc = "loop"
    /\ collected < total
    /\ items # <<>>
    /\ LET display == Min(PageSize, total - collected)
           d == Dedup(items, existing_urls, collected_urls)
           r == insert_news(naver_news, d.new_items, errs)
       IN /\ naver_news' = r.table
          /\ collected_urls' = d.seen
          /\ inserted_total' = inserted_total + r.inserted
          /\ collected' = collected + Len(items)
          /\ start' = start + display
          /\ stalled' = (inserted_total' = inserted_total)
          /\ hadded' = hadded + (Len(r.table) - Len(naver_news))
          /\ lastBatch' = d.new_items
          /\ lastErrs' = errs
          /\ lastRowcounts' = RowcountLoop(naver_news, naver_news, d.new_items, 1, errs)
          /\ IF LoopEnds(inserted_total', inserted_total, start', collected')
             THEN hpc' = "done" /\ hresult' = inserted_total'
             ELSE hpc' = "loop" /\ hresult' = hresult
    /\ nreq' = nreq + 1
    /\ req_start' = start
    /\ req_display' = Min(PageSize, total - collected)
    /\ page_failed' = FALSE
    /\ UNCHANGED <<crawled_news, provider, hruns, total, existing_urls, crawlVars>>

\* The inputs of the two: the target count and the 3-day window of a call,
\* the provider's response and the INSERTs that raise in an iteration.
HarvestCall ==
    \E t \in 1..MaxTotal, ex \in SUBSET StoredUrls(naver_news) : HarvestStart(t, ex)

HarvestPage ==
    \E items \in Responses(Min(PageSize, total - collected)) :
        \E errs \in StoreErrors(Dedup(items, existing_urls, collected_urls).new_items) :
            HarvestPageItems(items, errs)

(***************************************************************************)
(* NewsCrawler: the blocklist and the classification rule.                 *)
(***************************************************************************)
Procs == 1..NProcs

\* Strings are sequences of characters.
Www == <<"w", "w", "w", ".">>

\* str.replace(pat, ''): every non-overlapping occurrence of pat, found left
\* to right, is removed.
RECURSIVE RemoveAll(_, _)
RemoveAll(s, pat) ==
    IF Len(s) < Len(pat) THEN s
    ELSE IF SubSeq(s, 1, Len(pat)) = pat
    THEN RemoveAll(SubSeq(s, Len(pat) + 1, Len(s)), pat)
    ELSE <<Head(s)>> \o RemoveAll(Tail(s), pat)

\* Python's `sub in s` on strings.
Contains(sub, s) ==
    \E k \in 0..(Len(s) - Len(sub)) : SubSeq(s, k + 1, k + Len(sub)) = sub

\* _load_filter_domains: the non-blank lines of the file, 'www.' removed.
load_filter_domains(lines) ==
    {RemoveAll(line, Www) : line \in {l \in lines : l # <<>>}}

\* _is_url_filtered, with urlparse(url).netloc read off the parsed URL.
is_url_filtered(url) ==
    LET domain == RemoveAll(url.netloc, Www)
    IN \E fd \in filtered_domains : Contains(fd, domain) \/ Contains(domain, fd)

(***************************************************************************)
(* NewsCrawler.filter_urls: one transaction on the process's connection.   *)
(* naver_news holds the committed rows; the rows an uncommitted UPDATE of  *)
(* a pass has written stay locked, and invisible to others, to its commit. *)
(***************************************************************************)
Range(seq) == {seq[i] : i \in 1..Len(seq)}

\* The ids of S, largest first (ORDER BY news_id DESC).
RECURSIVE DescSeq(_)
DescSeq(S) ==
    IF S = {} THEN <<>>
    ELSE LET m == CHOOSE x \in S : \A y \in S : y <= x
         IN <<m>> \o DescSeq(S \ {m})

PendingIds(table) == {i \in 1..Len(table) : table[i].crawl_status = "pending"}

InFilter == {"filter", "update_filtered", "update_passed", "commit"}

\* Rows process p's open filter_urls transaction has updated and not committed.
LockedBy(p) ==
    (IF ppc[p] \in {"update_passed", "commit"} THEN Range(filtered_ids[p]) ELSE {})
    \cup (IF ppc[p] = "commit" THEN Range(passed_ids[p]) ELSE {})

\* An UPDATE of row id by anyone but p waits while another pass holds the row.
RowFree(p, id) == \A q \in Procs \ {p} : id \notin LockedBy(q)

\* A first UPDATE that sets the status and leaves the version as it was.
UpdateFilteredStatusOnly(table, ids, version) ==
    [i \in 1..Len(table) |->
        IF i \in Range(ids)
        THEN [table[i] EXCEPT !.crawl_status = "url_filtered"]
        ELSE table[i]]

\* UPDATE naver_news SET crawl_status = 'url_filtered', url_filter_version = %s
\* WHERE news_id = ANY(filtered_ids)
UpdateFiltered(table, ids, version) ==
    [i \in 1..Len(table) |->
        IF i \in Range(ids)
        THEN [table[i] EXCEPT !.crawl_status = "url_filtered",
                              !.url_filter_version = version]
        ELSE table[i]]

\* A second UPDATE that stamps nothing.
UpdatePassedNoStamp(table, ids, version) == table

\* UPDATE naver_news SET url_filter_version = %s WHERE news_id = ANY(passed_ids)
UpdatePassed(table, ids, version) ==
    [i \in 1..Len(table) |->
        IF i \in Range(ids)
        THEN [table[i] EXCEPT !.url_filter_version = version]
        ELSE table[i]]

\* What process p's transaction has written so far, on top of the committed rows.
Written(p) ==
    LET t1 == IF ppc[p] \in {"update_passed", "commit"}
              THEN UpdateFiltered(naver_news, filtered_ids[p], filter_version)
              ELSE naver_news
    IN IF ppc[p] = "commit"
       THEN UpdatePassed(t1, passed_ids[p], filter_version)
       ELSE t1

\* A pass that leaves its executed statements in the store when it fails.
RolledBackNot(p) == Written(p)

\* conn.rollback(): the committed rows, with nothing of the pass in them.
RolledBack(p) == naver_news

\* run() calls filter_urls().
RunStart(p) ==
    /\ ppc[p] = "idle"
    /\ ppc' = [ppc EXCEPT ![p] = "filter"]
    /\ UNCHANGED <<storeVars, harvVars, filtered_domains, filter_version,
                   max_workers, run_result, filtered_ids, passed_ids, filtered_count,
                   tasks, crawl_result, fault_at>>

\* The SELECT of the pending rows and their classification; with no pending
\* row filter_urls() returns 0.
FilterSelect(p) ==
    /\ ppc[p] = "filter"
    /\ LET news_list == DescSeq(PendingIds(naver_news))
           IsFiltered(id) == is_url_filtered(naver_news[id].url)
           IsPassed(id) == ~is_url_filtered(naver_news[id].url)
       IN IF news_list = <<>>
          THEN /\ ppc' = [ppc EXCEPT ![p] = "crawl"]
               /\ filtered_count' = [filtered_count EXCEPT ![p] = 0]
               /\ UNCHANGED <<filtered_ids, passed_ids>>
          ELSE /\ ppc' = [ppc EXCEPT ![p] = "update_filtered"]
               /\ filtered_ids' = [filtered_ids EXCEPT ![p] = SelectSeq(news_list, IsFiltered)]
               /\ passed_ids' = [passed_ids EXCEPT ![p] = SelectSeq(news_list, IsPassed)]
               /\ UNCHANGED filtered_count
    /\ UNCHANGED <<storeVars, harvVars, filtered_domains, filter_version,
                   max_workers, run_result, tasks, crawl_result, fault_at>>

\* if filtered_ids: the first UPDATE, not committed.
FilterUpdateFiltered(p) ==
    /\ ppc[p] = "update_filtered"
    /\ \A id \in Range(filtered_ids[p]) : RowFree(p, id)
    /\ ppc' = [ppc EXCEPT ![p] = "update_passed"]
    /\ UNCHANGED <<storeVars, harvVars, filtered_domains, filter_version,
                   max_workers, run_result, filtered_ids, passed_ids, filtered_count,
                   tasks, crawl_result, fault_at>>

\* if passed_ids: the second UPDATE, not committed.
FilterUpdatePassed(p) ==
    /\ ppc[p] = "update_passed"
    /\ \A id \in Range(passed_ids[p]) : RowFree(p, id)
    /\ ppc' = [ppc EXCEPT ![p] = "commit"]
    /\ UNCHANGED <<storeVars, harvVars, filtered_domains, filter_version,
                   max_workers, run_result, filtered_ids, passed_ids, filtered_count,
                   tasks, crawl_result, fault_at>>

\* conn.commit(); return len(filtered_ids).
FilterCommit(p) ==
    /\ ppc[p] = "commit"
    /\ naver_news' = Written(p)
    /\ ppc' = [ppc EXCEPT ![p] = "crawl"]
    /\ filtered_count' = [filtered_count EXCEPT ![p] = Len(filtered_ids[p])]
    /\ UNCHANGED <<crawled_news, harvVars, filtered_domains, filter_version,
                   max_workers, run_result, filtered_ids, passed_ids, tasks, crawl_result,
                   fault_at>>

\* A statement or the commit of the pass raises: conn.rollback(); raise. The
\* error leaves filter_urls() and run().
FilterFault(p) ==
    /\ ppc[p] \in InFilter
    /\ ppc[p] = "update_filtered" => filtered_ids[p] # <<>>
    /\ ppc[p] = "update_passed" => passed_ids[p] # <<>>
    /\ naver_news' = RolledBack(p)
    /\ ppc' = [ppc EXCEPT ![p] = "raised"]
    /\ fault_at' = [fault_at EXCEPT ![p] = ppc[p]]
    /\ UNCHANGED <<crawled_news, harvVars, filtered_domains, filter_version,
                   max_workers, run_result, filtered_ids, passed_ids, filtered_count,
                   tasks, crawl_result>>

(***************************************************************************)
(* NewsCrawler.crawl_news and its tasks (_process_single_news). A task's   *)
(* pc: "queued" (submitted), "claim", "fetch", "insert", "mark_success"    *)
(* (its INSERT INTO crawled_news done, not committed), "duplicate" (its    *)
(* INSERT met IntegrityError and was rolled back), "mark_failed", "done".  *)
(***************************************************************************)
NoText == "None"
Texts == {"hello"}

\* A selection that does not look at url_filter_version.
EligibleIdsAnyVersion(table) ==
    {i \in 1..Len(table) : table[i].crawl_status = "pending"}

\* WHERE crawl_status = 'pending' AND url_filter_version IS NOT NULL
EligibleIds(table) ==
    {i \in 1..Len(table) : /\ table[i].crawl_status = "pending"
                           /\ table[i].url_filter_version # NULL}

\* The orders ORDER BY pub_date DESC may return the rows of S in.
Orderings(S, table) ==
    {o \in [1..Cardinality(S) -> S] :
        /\ \A i, j \in DOMAIN o : i # j => o[i] # o[j]
        /\ \A i, j \in DOMAIN o : i < j => table[o[i]].pub_date >= table[o[j]].pub_date}

\* A submitted task: its row, where it is, the pool thread that runs it (0:
\* none), the text it fetched, what it returned, where it met an error; and,
\* as history, the row's status and filter version as the SELECT saw them.
NewTask(id) == [news_id |-> id, pc |-> "queued", worker |-> 0, text |-> NoText,
                result |-> NULL, fault_at |-> NULL,
                sel_status |-> naver_news[id].crawl_status,
                sel_version |-> naver_news[id].url_filter_version]

Running(p) ==
    Cardinality({i \in DOMAIN tasks[p] : tasks[p][i].pc \notin {"queued", "done"}})

SetTask(p, i, t) == [tasks EXCEPT ![p][i] = t]

\* A pool in which a thread takes a task while it still runs another.
AnyWorker(p) == 1..max_workers

\* The threads of ThreadPoolExecutor(max_workers) that run no task.
FreeWorkers(p) ==
    (1..max_workers) \ {tasks[p][i].worker : i \in DOMAIN tasks[p]}

UpdateStatus(table, id, status) ==
    [table EXCEPT ![id].crawl_status = status]

\* A value returned to a caller: Python's None, or a tuple.
PyNone == [is_none |-> TRUE, value |-> <<>>]
PyTuple(t) == [is_none |-> FALSE, value |-> t]

\* run() once crawl_news() has returned (success_count, failed_count): it logs
\* the three counts and the elapsed time and ends; it has no return statement.
RunReturn(filtered, crawled) == PyNone

\* The SELECT of crawl_news and the submission of one task per row; with no
\* row crawl_news() returns (0, 0).
CrawlSelect(p, news_list) ==
    /\ ppc[p] = "crawl"
    /\ news_list \in Orderings(EligibleIds(naver_news), naver_news)
    /\ IF news_list = <<>>
       THEN /\ ppc' = [ppc EXCEPT ![p] = "done"]
            /\ crawl_result' = [crawl_result EXCEPT ![p] = <<0, 0>>]
            /\ run_result' = [run_result EXCEPT ![p] =
                                RunReturn(filtered_count[p], <<0, 0>>)]
            /\ UNCHANGED tasks
       ELSE /\ ppc' = [ppc EXCEPT ![p] = "pool"]
            /\ tasks' = [tasks EXCEPT ![p] = [i \in DOMAIN news_list |-> NewTask(news_list[i])]]
            /\ UNCHANGED <<crawl_result, run_result>>
    /\ UNCHANGED <<storeVars, harvVars, filtered_domains, filter_version,
                   max_workers, filtered_ids, passed_ids, filtered_count, fault_at>>

\* The SELECT raises: crawl_news() logs and re-raises.
CrawlFault(p) ==
    /\ ppc[p] = "crawl"
    /\ ppc' = [ppc EXCEPT ![p] = "raised"]
    /\ UNCHANGED <<storeVars, harvVars, filtered_domains, filter_version,
                   max_workers, run_result, filtered_ids, passed_ids, filtered_count,
                   tasks, crawl_result, fault_at>>

\* A pool thread is free and takes the next submitted task.
CanStart(p, i) ==
    /\ ppc[p] = "pool"
    /\ i \in DOMAIN tasks[p]
    /\ tasks[p][i].pc = "queued"
    /\ \A j \in 1..(i - 1) : tasks[p][j].pc # "queued"
    /\ FreeWorkers(p) # {}

tasksUnchanged == UNCHANGED <<harvVars, filtered_domains, filter_version,
                              max_workers, run_result, ppc, filtered_ids, passed_ids,
                              filtered_count, crawl_result, fault_at>>

\* The task starts: its own connection is open.
TaskStart(p, i) ==
    /\ CanStart(p, i)
    /\ \E w \in FreeWorkers(p) :
          tasks' = SetTask(p, i, [tasks[p][i] EXCEPT !.pc = "claim", !.worker = w])
    /\ UNCHANGED storeVars
    /\ tasksUnchanged

\* _get_db_connection() raises, outside the try: the error leaves the task.
TaskConnectFault(p, i) ==
    /\ CanStart(p, i)
    /\ tasks' = SetTask(p, i, [tasks[p][i] EXCEPT !.pc = "done", !.result = "raised",
                                                  !.fault_at = "connect"])
    /\ UNCHANGED storeVars
    /\ tasksUnchanged

\* UPDATE ... SET crawl_status = 'crawling', crawl_attempt_count + 1; commit.
Claimed(table, id) ==
    [table EXCEPT ![id].crawl_status = "crawling",
                  ![id].crawl_attempt_count = @ + 1]

TaskClaim(p, i) ==
    /\ ppc[p] = "pool"
    /\ i \in DOMAIN tasks[p]
    /\ tasks[p][i].pc = "claim"
    /\ RowFree(p, tasks[p][i].news_id)
    /\ naver_news' = Claimed(naver_news, tasks[p][i].news_id)
    /\ tasks' = SetTask(p, i, [tasks[p][i] EXCEPT !.pc = "fetch"])
    /\ UNCHANGED crawled_news
    /\ tasksUnchanged

\* crawl_article(url): the stripped text, or None (empty text, any failure).
TaskFetch(p, i, text) ==
    /\ ppc[p] = "pool"
    /\ i \in DOMAIN tasks[p]
    /\ tasks[p][i].pc = "fetch"
    /\ tasks' = SetTask(p, i, [tasks[p][i] EXCEPT
                                 !.text = text,
                                 !.pc = IF text # NoText THEN "insert" ELSE "mark_failed"])
    /\ UNCHANGED storeVars
    /\ tasksUnchanged

\* A committed crawled_news row for the article exists.
HasContent(table, id) == \E k \in 1..Len(table) : table[k].news_id = id

\* INSERT INTO crawled_news meets the key of a committed row: IntegrityError.
InsertConflicts(id) == HasContent(crawled_news, id)

\* Another open transaction has inserted a row for the article and not yet
\* committed: the INSERT waits for it.
InsertWaits(p, i) ==
    \E q \in Procs : \E j \in DOMAIN tasks[q] :
        /\ <<q, j>> # <<p, i>>
        /\ tasks[q][j].pc = "mark_success"
        /\ tasks[q][j].news_id = tasks[p][i].news_id

\* The INSERT: done (not committed), or IntegrityError and conn.rollback().
TaskInsert(p, i) ==
    /\ ppc[p] = "pool"
    /\ i \in DOMAIN tasks[p]
    /\ tasks[p][i].pc = "insert"
    /\ ~InsertWaits(p, i)
    /\ tasks' = SetTask(p, i, [tasks[p][i] EXCEPT
                                 !.pc = IF InsertConflicts(tasks[p][i].news_id)
                                        THEN "duplicate" ELSE "mark_success"])
    /\ UNCHANGED storeVars
    /\ tasksUnchanged

\* UPDATE ... SET crawl_status = 'crawl_success'; commit; return 'success'.
TaskMarkSuccess(p, i) ==
    /\ ppc[p] = "pool"
    /\ i \in DOMAIN tasks[p]
    /\ tasks[p][i].pc = "mark_success"
    /\ RowFree(p, tasks[p][i].news_id)
    /\ crawled_news' = Append(crawled_news, [news_id |-> tasks[p][i].news_id,
                                             text |-> tasks[p][i].text])
    /\ naver_news' = UpdateStatus(naver_news, tasks[p][i].news_id, "crawl_success")
    /\ tasks' = SetTask(p, i, [tasks[p][i] EXCEPT !.pc = "done", !.worker = 0,
                                                  !.result = "success"])
    /\ tasksUnchanged

\* The IntegrityError handled like any other error: rollback, return 'failed'.
TaskDuplicateAsFailure(p, i) ==
    /\ ppc[p] = "pool"
    /\ i \in DOMAIN tasks[p]
    /\ tasks[p][i].pc = "duplicate"
    /\ tasks' = SetTask(p, i, [tasks[p][i] EXCEPT !.pc = "done", !.worker = 0,
                                                  !.result = "failed"])
    /\ UNCHANGED storeVars
    /\ tasksUnchanged

\* except psycopg2.IntegrityError: the same UPDATE; commit; return 'success'.
TaskDuplicate(p, i) ==
    /\ ppc[p] = "pool"
    /\ i \in DOMAIN tasks[p]
    /\ tasks[p][i].pc = "duplicate"
    /\ RowFree(p, tasks[p][i].news_id)
    /\ naver_news' = UpdateStatus(naver_news, tasks[p][i].news_id, "crawl_success")
    /\ tasks' = SetTask(p, i, [tasks[p][i] EXCEPT !.pc = "done", !.worker = 0,
                                                  !.result = "success"])
    /\ UNCHANGED crawled_news
    /\ tasksUnchanged

\* No text: UPDATE ... SET crawl_status = 'crawl_failed'; commit; return 'failed'.
TaskMarkFailed(p, i) ==
    /\ ppc[p] = "pool"
    /\ i \in DOMAIN tasks[p]
    /\ tasks[p][i].pc = "mark_failed"
    /\ RowFree(p, tasks[p][i].news_id)
    /\ naver_news' = UpdateStatus(naver_news, tasks[p][i].news_id, "crawl_failed")
    /\ tasks' = SetTask(p, i, [tasks[p][i] EXCEPT !.pc = "done", !.worker = 0,
                                                  !.result = "failed"])
    /\ UNCHANGED crawled_news
    /\ tasksUnchanged

\* What `except Exception` leaves in naver_news: conn.rollback() only.
AfterException(table, id) == table

\* A statement or commit of the task raises anything else: except Exception:
\* conn.rollback(); return 'failed'.
TaskFault(p, i) ==
    /\ ppc[p] = "pool"
    /\ i \in DOMAIN tasks[p]
    /\ tasks[p][i].pc \in {"claim", "insert", "mark_success", "duplicate", "mark_failed"}
    /\ naver_news' = AfterException(naver_news, tasks[p][i].news_id)
    /\ tasks' = SetTask(p, i, [tasks[p][i] EXCEPT !.pc = "done", !.worker = 0,
                                                  !.result = "failed",
                                                  !.fault_at = tasks[p][i].pc])
    /\ UNCHANGED crawled_news
    /\ tasksUnchanged

CountResult(p, r) ==
    Cardinality({i \in DOMAIN tasks[p] : tasks[p][i].result = r})

\* Every future is complete: future.result() re-raises a task's error, which
\* leaves crawl_news() and run(); otherwise crawl_news() returns the counts
\* (a result that is not 'success' counts as failed).
CrawlReturn(p) ==
    /\ ppc[p] = "pool"
    /\ \A i \in DOMAIN tasks[p] : tasks[p][i].pc = "done"
    /\ IF \E i \in DOMAIN tasks[p] : tasks[p][i].result = "raised"
       THEN /\ ppc' = [ppc EXCEPT ![p] = "raised"]
            /\ UNCHANGED <<crawl_result, run_result>>
       ELSE /\ ppc' = [ppc EXCEPT ![p] = "done"]
            /\ crawl_result' = [crawl_result EXCEPT ![p] =
                                  <<CountResult(p, "success"),
                                    Len(tasks[p]) - CountResult(p, "success")>>]
            /\ run_result' = [run_result EXCEPT ![p] =
                                RunReturn(filtered_count[p], crawl_result'[p])]
    /\ UNCHANGED <<storeVars, harvVars, filtered_domains, filter_version,
                   max_workers, filtered_ids, passed_ids, filtered_count, tasks,
                   fault_at>>

(***************************************************************************)
(* Initial states.                                                         *)
(***************************************************************************)
InitStore ==
    /\ naver_news = <<>>
    /\ crawled_news = <<>>

InitHarvester ==
    /\ hpc = "idle"
    /\ hruns = 0
    /\ total = 0
    /\ collected = 0
    /\ inserted_total = 0
    /\ start = 1
    /\ existing_urls = {}
    /\ collected_urls = {}
    /\ hresult = -1
    /\ nreq = 0
    /\ stalled = FALSE
    /\ hadded = 0
    /\ lastBatch = <<>>
    /\ lastErrs = {}
    /\ lastRowcounts = <<>>
    /\ req_start = 0
    /\ req_display = 0
    /\ page_failed = FALSE

(***************************************************************************)
(* The Harvester alone, against a live provider.                           *)
(***************************************************************************)
\* The processes before run(); the blocklist file holds the line "a".
InitProcs ==
    /\ ppc = [p \in Procs |-> "idle"]
    /\ filtered_ids = [p \in Procs |-> <<>>]
    /\ passed_ids = [p \in Procs |-> <<>>]
    /\ filtered_count = [p \in Procs |-> NULL]
    /\ tasks = [p \in Procs |-> <<>>]
    /\ crawl_result = [p \in Procs |-> NULL]
    /\ run_result = [p \in Procs |-> NULL]
    /\ fault_at = [p \in Procs |-> NULL]

FilterVersion == "v1.00"

InitCrawler ==
    /\ InitProcs
    /\ filtered_domains = load_filter_domains({<<"a">>})
    /\ filter_version = FilterVersion
    /\ max_workers \in 1..MaxWorkers

LiveProvider == [fixed |-> FALSE, page |-> <<>>, ranked |-> FALSE]
RankedProvider == [fixed |-> FALSE, page |-> <<>>, ranked |-> TRUE]

InitHarvest ==
    /\ InitStore /\ InitHarvester /\ provider = LiveProvider
    /\ InitProcs
    /\ filtered_domains = load_filter_domains({<<"a">>})
    /\ filter_version = FilterVersion
    /\ max_workers = 1

NextHarvest ==
    \/ HarvestCall
    \/ HarvestPageNone
    \/ HarvestPage

SpecHarvest == InitHarvest /\ [][NextHarvest]_vars

(***************************************************************************)
(* The Harvester against a provider stub that answers every request with   *)
(* the same non-empty page.                                                *)
(***************************************************************************)
InitFixedProvider ==
    /\ InitStore /\ InitHarvester
    /\ provider \in [fixed : {TRUE}, page : Pages \ {<<>>}, ranked : {FALSE}]
    /\ InitProcs
    /\ filtered_domains = load_filter_domains({<<"a">>})
    /\ filter_version = FilterVersion
    /\ max_workers = 1

NextFixedProvider ==
    \/ HarvestCall
    \/ HarvestPage

SpecFixedProvider == InitFixedProvider /\ [][NextFixedProvider]_vars

(***************************************************************************)
(* The request window: collect() is invoked once on an empty store, with a *)
(* small target against the live provider, or with a target around the     *)
(* provider's window against the ranked provider.                          *)
(***************************************************************************)
WindowTotals == {PageSize + 1, ApiWindow, 2 * ApiWindow}

InitWindow ==
    /\ InitStore /\ InitHarvester
    /\ provider \in {LiveProvider, RankedProvider}
    /\ InitProcs
    /\ filtered_domains = load_filter_domains({<<"a">>})
    /\ filter_version = FilterVersion
    /\ max_workers = 1

HarvestCallRanked ==
    /\ hruns = 0
    /\ provider.ranked
    /\ \E t \in WindowTotals : HarvestStart(t, {})

HarvestCallLive ==
    /\ hruns = 0
    /\ ~provider.ranked
    /\ HarvestCall

NextWindow ==
    \/ HarvestCallRanked
    \/ HarvestCallLive
    \/ HarvestPageNone
    \/ HarvestPage

SpecWindow == InitWindow /\ [][NextWindow]_vars

\* collect() is sequential code and the provider answers every request (with
\* a page or an error): an iteration of the loop that can run does run. Every
\* iteration issues a request, so it changes nreq.
HarvestIteration == HarvestPageNone \/ HarvestPage

\* collect() invoked once against the live provider, on an empty store or on
\* a store that holds the first article from an earlier run.
InitHarvestOnce ==
    /\ naver_news \in {<<>>, InsertRow(<<>>, parse_item([link |-> Url(1), pubDate |-> 1]))}
    /\ crawled_news = <<>>
    /\ InitHarvester /\ provider = LiveProvider
    /\ InitProcs
    /\ filtered_domains = load_filter_domains({<<"a">>})
    /\ filter_version = FilterVersion
    /\ max_workers = 1

NextHarvestOnce ==
    \/ HarvestCallLive
    \/ HarvestPageNone
    \/ HarvestPage

SpecHarvestFair == InitHarvestOnce /\ [][NextHarvestOnce]_vars /\ WF_nreq(HarvestIteration)

(***************************************************************************)
(* The steps of a crawler process.                                         *)
(***************************************************************************)
TaskIds == 1..NUrls

FilterStep(p) ==
    \/ RunStart(p)
    \/ FilterSelect(p)
    \/ FilterUpdateFiltered(p)
    \/ FilterUpdatePassed(p)
    \/ FilterCommit(p)

CrawlCall(p) ==
    \E news_list \in Orderings(EligibleIds(naver_news), naver_news) :
        CrawlSelect(p, news_list)

TaskFetches(p, i) == \E text \in Texts \cup {NoText} : TaskFetch(p, i, text)

\* The steps of crawl_news() in a process that is alone on the store: no
\* crawled_news row exists for a row it selected, so no INSERT of it conflicts.
CrawlStepAlone(p) ==
    \/ CrawlCall(p)
    \/ \E i \in TaskIds : TaskStart(p, i)
    \/ \E i \in TaskIds : TaskClaim(p, i)
    \/ \E i \in TaskIds : TaskFetches(p, i)
    \/ \E i \in TaskIds : TaskInsert(p, i)
    \/ \E i \in TaskIds : TaskMarkSuccess(p, i)
    \/ \E i \in TaskIds : TaskMarkFailed(p, i)
    \/ CrawlReturn(p)

CrawlStep(p) ==
    \/ CrawlStepAlone(p)
    \/ \E i \in TaskIds : TaskDuplicate(p, i)

CrawlFaultStep(p) ==
    \/ CrawlFault(p)
    \/ \E i \in TaskIds : TaskConnectFault(p, i)
    \/ \E i \in TaskIds : TaskFault(p, i)

(***************************************************************************)
(* The whole pipeline: the Harvester is invoked once on an empty store and *)
(* one crawler process calls run(); statements and connections may fail.   *)
(***************************************************************************)
Init ==
    /\ InitStore /\ InitHarvester /\ provider = LiveProvider
    /\ InitCrawler

HarvestOnce == hruns = 0 /\ HarvestCall

Next ==
    \/ HarvestOnce
    \/ HarvestPageNone
    \/ HarvestPage
    \/ FilterStep(1)
    \/ CrawlStepAlone(1)
    \/ FilterFault(1)
    \/ CrawlFaultStep(1)

Spec == Init /\ [][Next]_vars

(***************************************************************************)
(* The Classifier: NProcs processes call run() and go through filter_urls  *)
(* against a store of NUrls rows, with the blocklist {"a"}: row 1 (host a) *)
(* matches, the others (host b) do not. A row is fresh from the Harvester, *)
(* or classified by an earlier run, or crawled and failed.                 *)
(***************************************************************************)
FreshRow(i) == NewRecord([url |-> Url(i), pub_date |-> 1])

RowStates(i) ==
    {FreshRow(i)} \cup
    (IF HostOf(i) = <<"a">>
     THEN {[FreshRow(i) EXCEPT !.crawl_status = "url_filtered",
                               !.url_filter_version = FilterVersion]}
     ELSE {[FreshRow(i) EXCEPT !.url_filter_version = FilterVersion],
           [FreshRow(i) EXCEPT !.url_filter_version = FilterVersion,
                               !.crawl_status = "crawl_failed",
                               !.crawl_attempt_count = 1]})

InitClassify ==
    /\ InitHarvester /\ provider = LiveProvider
    /\ naver_news \in {t \in [1..NUrls -> UNION {RowStates(i) : i \in 1..NUrls}] :
                          \A i \in 1..NUrls : t[i] \in RowStates(i)}
    /\ crawled_news = <<>>
    /\ InitProcs
    /\ filtered_domains = load_filter_domains({<<"a">>})
    /\ filter_version = FilterVersion
    /\ max_workers = 1

NextClassify == \E p \in Procs : FilterStep(p) \/ FilterFault(p)

SpecClassify == InitClassify /\ [][NextClassify]_vars

(***************************************************************************)
(* One classification pass with no other writer: one process goes through  *)
(* filter_urls() on a store of NUrls rows left by the Harvester and by     *)
(* earlier runs, some under an older filter file, with any blocklist over  *)
(* the hosts "a" and "b".                                                  *)
(***************************************************************************)
OldFilterVersion == "v0.99"

\* The states earlier runs may have left row i in.
EarlierRowStates(i) ==
    {FreshRow(i)} \cup
    {[FreshRow(i) EXCEPT !.url_filter_version = v, !.crawl_status = st,
                         !.crawl_attempt_count = IF st \in {"crawl_failed", "crawling"}
                                                 THEN 1 ELSE 0] :
        v \in {OldFilterVersion, FilterVersion},
        st \in {"pending", "url_filtered", "crawl_failed", "crawling"}}

InitClassifyOne ==
    /\ InitHarvester /\ provider = LiveProvider
    /\ naver_news \in {t \in [1..NUrls -> UNION {EarlierRowStates(i) : i \in 1..NUrls}] :
                          \A i \in 1..NUrls : t[i] \in EarlierRowStates(i)}
    /\ crawled_news = <<>>
    /\ InitProcs
    /\ \E lines \in SUBSET {<<"a">>, <<"b">>} :
          filtered_domains = load_filter_domains(lines)
    /\ filter_version = FilterVersion
    /\ max_workers = 1

NextClassifyOne == FilterStep(1)

SpecClassifyOne == InitClassifyOne /\ [][NextClassifyOne]_vars

(***************************************************************************)
(* The classification rule: one fresh row with any network location up to *)
(* MaxHostLen characters, a blocklist file of at most one line of up to    *)
(* MaxEntryLen characters, and one filter_urls pass.                       *)
(***************************************************************************)
Chars == {"w", ".", "a"}
Hosts == SeqsUpTo(Chars, MaxHostLen)
Lines == SeqsUpTo(Chars, MaxEntryLen)

InitFilterRule ==
    /\ InitHarvester /\ provider = LiveProvider
    /\ \E h \in Hosts :
          naver_news = <<NewRecord([url |-> [netloc |-> h, path |-> 1], pub_date |-> 1])>>
    /\ crawled_news = <<>>
    /\ InitProcs
    /\ \E lines \in {{}} \cup {{l} : l \in Lines} :
          filtered_domains = load_filter_domains(lines)
    /\ filter_version = FilterVersion
    /\ max_workers = 1

NextFilterRule == FilterStep(1)

SpecFilterRule == InitFilterRule /\ [][NextFilterRule]_vars

(***************************************************************************)
(* The Crawler: every process is in run() past filter_urls(), which has    *)
(* stamped the NUrls pending rows of the store (empty blocklist), and      *)
(* calls crawl_news(); statements and connections may fail.                *)
(***************************************************************************)
StampedRow(i, d) ==
    [NewRecord([url |-> Url(i), pub_date |-> d]) EXCEPT !.url_filter_version = FilterVersion]

PastFilter ==
    /\ filtered_domains = load_filter_domains({})
    /\ filter_version = FilterVersion
    /\ ppc = [p \in Procs |-> "crawl"]
    /\ filtered_ids = [p \in Procs |-> <<>>]
    /\ passed_ids = [p \in Procs |-> DescSeq(1..Len(naver_news))]
    /\ filtered_count = [p \in Procs |-> 0]
    /\ tasks = [p \in Procs |-> <<>>]
    /\ crawl_result = [p \in Procs |-> NULL]
    /\ run_result = [p \in Procs |-> NULL]
    /\ fault_at = [p \in Procs |-> NULL]

InitCrawl ==
    /\ InitHarvester /\ provider = LiveProvider
    /\ \E d \in [1..NUrls -> PubDates] :
          naver_news = [i \in 1..NUrls |-> StampedRow(i, d[i])]
    /\ crawled_news = <<>>
    /\ max_workers \in 1..MaxWorkers
    /\ PastFilter

NextCrawl == \E p \in Procs : CrawlStep(p) \/ CrawlFaultStep(p)

SpecCrawl == InitCrawl /\ [][NextCrawl]_vars

\* One run of crawl_news() with no other process at work.
NextCrawlOne == CrawlStepAlone(1) \/ CrawlFaultStep(1)

SpecCrawlOne == InitCrawl /\ [][NextCrawlOne]_vars

(***************************************************************************)
(* The duplicate-insert race: one stamped pending row, which every process *)
(* selects and crawls; no statement fails.                                 *)
(***************************************************************************)
InitRace ==
    /\ InitHarvester /\ provider = LiveProvider
    /\ naver_news = <<StampedRow(1, 1)>>
    /\ crawled_news = <<>>
    /\ max_workers = 1
    /\ PastFilter

NextRace == \E p \in Procs : CrawlStep(p)

SpecRace == InitRace /\ [][NextRace]_vars

(***************************************************************************)
(* End to end: the store holds NUrls rows fresh from the Harvester, the    *)
(* blocklist is empty or {"a"}, and one process calls run(): filter_urls() *)
(* and then crawl_news(). Nothing else writes and no statement fails.      *)
(***************************************************************************)
InitEndToEnd ==
    /\ InitHarvester /\ provider = LiveProvider
    /\ \E d \in [1..NUrls -> PubDates] :
          naver_news = [i \in 1..NUrls |-> NewRecord([url |-> Url(i), pub_date |-> d[i]])]
    /\ crawled_news = <<>>
    /\ InitProcs
    /\ \E lines \in {{}, {<<"a">>}} : filtered_domains = load_filter_domains(lines)
    /\ filter_version = FilterVersion
    /\ max_workers \in 1..MaxWorkers

NextEndToEnd == FilterStep(1) \/ CrawlStepAlone(1)

SpecEndToEnd == InitEndToEnd /\ [][NextEndToEnd]_vars

(***************************************************************************)
(* Properties of the Harvester.                                            *)
(***************************************************************************)
UrlUnique ==
    \A i, j \in 1..Len(naver_news) :
        i # j => naver_news[i].url # naver_news[j].url

\* A step in which insert_news ran on a batch.
ConflictIsNoop ==
    (collected' > collected) =>
        /\ \A i \in DOMAIN lastBatch' :
              (i \notin lastErrs' /\ lastBatch'[i].url \in StoredUrls(naver_news))
                  => lastRowcounts'[i] = 0
        /\ inserted_total' - inserted_total
              = Cardinality({i \in DOMAIN lastRowcounts' : lastRowcounts'[i] = 1})
        /\ Len(naver_news') >= Len(naver_news)
        /\ SubSeq(naver_news', 1, Len(naver_news)) = naver_news

\* C3 (idempotent insert): over any sequence of collect() invocations and any
\* provider responses the store holds at most one article row per URL, and an
\* INSERT of a URL that is already stored has rowcount 0, adds nothing to the
\* inserted count and leaves every existing row as it was.
C3_IdempotentInsert == []UrlUnique /\ [][ConflictIsNoop]_vars

\* A second invocation has met a URL stored by the first: rowcount 0.
C3_Witness ==
    /\ hruns = 2
    /\ \E i \in DOMAIN lastBatch :
          /\ lastRowcounts[i] = 0
          /\ \E k \in 1..Len(naver_news) :
                /\ naver_news[k].url = lastBatch[i].url
                /\ naver_news[k].pub_date # lastBatch[i].pub_date

\* C4 (pagination termination): against a provider that answers every request
\* with the same non-empty page, an iteration that leaves the inserted total as
\* it was is the last one: collect() has returned the total reached so far and
\* issues no further request, which happens at the second request at the latest.
C4_PaginationTermination ==
    /\ stalled => (hpc = "done" /\ hresult = inserted_total)
    /\ nreq <= 2
    /\ hpc = "done" => hresult = inserted_total

\* The first page inserted rows, the second (the same page) none: stop.
C4_Witness ==
    /\ hpc = "done" /\ stalled /\ nreq = 2
    /\ hresult > 0 /\ collected < total

\* C7 (batch error isolation), as claimed: when insert_news has returned, every
\* item of the batch whose INSERT did not raise is stored, whether it came
\* before or after an item whose INSERT raised.
C7_BatchErrorIsolation ==
    \A i \in DOMAIN lastBatch :
        i \notin lastErrs => lastBatch[i].url \in StoredUrls(naver_news)

\* C8 (harvest result count), as claimed: the value collect() returns is the
\* number of rows the invocation added to the store.
C8_ResultCount == hpc = "done" => hresult = hadded

\* A step in which a page request of collect() failed.
PageFailureStep == nreq' = nreq + 1 /\ page_failed'

\* C13 (page-failure handling): a page request that fails is treated as a page
\* with no items: collect() stops paginating, raises nothing, leaves every row
\* of the store (those of the earlier pages included) as it was, and returns
\* the inserted total accumulated before the failure.
C13_PageFailure ==
    /\ [](page_failed => (hpc = "done" /\ hresult = inserted_total))
    /\ [][PageFailureStep =>
             /\ hpc' = "done"
             /\ hresult' = inserted_total
             /\ inserted_total' = inserted_total
             /\ naver_news' = naver_news
             /\ start' = start /\ collected' = collected]_vars

\* The second request of an invocation failed after the first page had added
\* a row: the row is kept and the count returned.
C13_Witness ==
    /\ page_failed /\ hpc = "done" /\ nreq = 2
    /\ hresult = 1 /\ hadded = 1 /\ Len(naver_news) >= 1

\* A step in which collect() issues a page request.
RequestStep == nreq' = nreq + 1

\* C16 (request window): the first request of an invocation has start 1, each
\* later one the start of the one before plus its page size; every request
\* has a page size in 1..100 and a start in 1..1000, and is issued while fewer
\* than the target count of items have been collected; once that many are
\* collected the loop has ended.
C16_RequestWindow ==
    /\ [](collected >= total => hpc # "loop")
    /\ [][RequestStep =>
             /\ collected < total
             /\ req_start' = (IF nreq = 0 THEN 1 ELSE req_start + req_display)
             /\ req_display' \in 1..100
             /\ req_start' \in 1..1000]_vars

\* The tenth request, at start 901 for 100 items, was the last of the window:
\* the loop ended with fewer items collected than the target.
C16_Witness ==
    /\ hpc = "done" /\ nreq = 10
    /\ req_start = 901 /\ req_display = 100
    /\ start = 1001 /\ collected < total /\ ~stalled

\* The counters of an invocation: at most 1000 requests, no more rows counted
\* as inserted than items collected, no more items collected than the target.
\* Every request but an empty last one moves start by at least one, and the
\* loop goes on only inside the window, which is what bounds the requests.
HarvestBounded ==
    /\ nreq <= start /\ nreq <= 1000
    /\ hpc = "loop" => (start <= 1000 /\ nreq < 1000)
    /\ inserted_total <= collected
    /\ collected <= total
    /\ hpc = "done" => (hresult <= collected /\ hresult = inserted_total)

PassStep(p) == ppc[p] \in InFilter /\ ppc'[p] # ppc[p]

PassIsAtomic(p) ==
    /\ (PassStep(p) /\ ppc'[p] = "raised") =>
          /\ naver_news' = naver_news
          /\ fault_at'[p] # NULL
    /\ (PassStep(p) /\ ppc[p] # "commit") => naver_news' = naver_news
    /\ (PassStep(p) /\ ppc[p] = "commit" /\ ppc'[p] = "crawl") =>
          /\ \A id \in Range(filtered_ids[p]) :
                /\ naver_news'[id].crawl_status = "url_filtered"
                /\ naver_news'[id].url_filter_version = filter_version
          /\ \A id \in Range(passed_ids[p]) :
                naver_news'[id].url_filter_version = filter_version
          /\ filtered_count'[p] = Len(filtered_ids[p])

\* C9 (classifier atomicity): a pass that fails at any step is rolled back
\* entirely, no row's crawl_status or url_filter_version is changed by it, and
\* the error is re-raised; no statement of a pass is visible before its commit,
\* and the commit makes the url_filtered updates and the version stamps visible
\* together.
C9_ClassifierAtomicity == [][\A p \in Procs : PassIsAtomic(p)]_vars

\* A pass failed after its first UPDATE had run: the rows it had marked are
\* still pending and unstamped.
C9_Witness ==
    \E p \in Procs :
        /\ ppc[p] = "raised"
        /\ fault_at[p] \in {"update_passed", "commit"}
        /\ filtered_ids[p] # <<>>
        /\ \A id \in Range(filtered_ids[p]) :
              /\ naver_news[id].crawl_status = "pending"
              /\ naver_news[id].url_filter_version = NULL

\* The step in which a pass of process 1 ends with success: its commit, or
\* its return after a SELECT that found no pending row.
PassSucceeds ==
    /\ ppc'[1] = "crawl"
    /\ ppc[1] \in {"filter", "commit"}

\* With no other writer the rows at that step are the rows the pass started on.
PartitionDone ==
    /\ \A id \in 1..Len(naver_news) :
          IF naver_news[id].crawl_status = "pending"
          THEN naver_news'[id] =
                  [naver_news[id] EXCEPT
                      !.url_filter_version = filter_version,
                      !.crawl_status = IF is_url_filtered(naver_news[id].url)
                                       THEN "url_filtered" ELSE "pending"]
          ELSE naver_news'[id] = naver_news[id]
    /\ Len(naver_news') = Len(naver_news)
    /\ filtered_count'[1] =
          Cardinality({id \in 1..Len(naver_news) :
                          /\ naver_news[id].crawl_status = "pending"
                          /\ naver_news'[id].crawl_status = "url_filtered"})

\* C15 (classifier partition): a successful pass with no concurrent writer
\* stamps every row that was pending at its start with the current filter
\* version and sets it to url_filtered if its URL matches the blocklist (as
\* _is_url_filtered decides) and leaves it pending otherwise; every other row
\* keeps its status, filter version and attempt count; the value returned is
\* the number of rows moved to url_filtered. No earlier step of the pass
\* changes a row.
C15_ClassifierPartition ==
    [][IF PassSucceeds THEN PartitionDone ELSE naver_news' = naver_news]_vars

\* A pass has ended that moved one row to url_filtered, stamped a row that
\* stays pending.
C15_Witness ==
    /\ ppc[1] = "crawl"
    /\ filtered_count[1] = 1
    /\ \E id \in Range(filtered_ids[1]) :
          /\ naver_news[id].crawl_status = "url_filtered"
          /\ naver_news[id].url_filter_version = filter_version
    /\ \E id \in Range(passed_ids[1]) :
          /\ naver_news[id].crawl_status = "pending"
          /\ naver_news[id].url_filter_version = filter_version

\* The rule as claimed: the host with a leading 'www.' stripped.
StripLeadingWww(h) ==
    IF Len(h) >= Len(Www) /\ SubSeq(h, 1, Len(Www)) = Www
    THEN SubSeq(h, Len(Www) + 1, Len(h))
    ELSE h

ClaimedFiltered(h, entries) ==
    \E e \in entries :
        \/ Contains(e, StripLeadingWww(h))
        \/ Contains(StripLeadingWww(h), e)

\* C10 (filter classification rule), as claimed: a classified row is filtered
\* if and only if, with host = its URL's host with a leading "www." stripped,
\* some blocklist entry is a substring of host or host of some entry.
C10_FilterRule ==
    \A id \in 1..Len(naver_news) :
        naver_news[id].url_filter_version # NULL =>
            (naver_news[id].crawl_status = "url_filtered"
                <=> ClaimedFiltered(naver_news[id].url.netloc, filtered_domains))

(***************************************************************************)
(* Properties of the Crawler.                                              *)
(***************************************************************************)
Final == {"crawl_success", "crawl_failed"}
Terminal == {"crawl_success", "crawl_failed", "url_filtered"}
StatusOf(id) == naver_news[id].crawl_status

\* C1 (status transitions are total and exclusive), as claimed: when one run
\* of crawl_news() has returned, every row it selected has status
\* crawl_success or crawl_failed, whatever was fetched and whatever failed.
C1_StatusTotal ==
    (ppc[1] = "done" /\ crawl_result[1] # NULL) =>
        \A i \in DOMAIN tasks[1] : StatusOf(tasks[1][i].news_id) \in Final

\* The tasks, of any process, that work on article id.
TasksOn(id) ==
    {pi \in Procs \X TaskIds :
        /\ pi[2] \in DOMAIN tasks[pi[1]]
        /\ tasks[pi[1]][pi[2]].news_id = id}

ContentRows(id) == {k \in 1..Len(crawled_news) : crawled_news[k].news_id = id}

\* C2 (concurrent duplicate content insert): when two workers (or more) have
\* processed the same article, each having fetched non-empty text, then under
\* every interleaving exactly one content row of the article is stored, every
\* one of them has reported success and the article's status is crawl_success;
\* and no article ever has two content rows.
C2_DuplicateInsertRace ==
    \A id \in 1..Len(naver_news) :
        /\ Cardinality(ContentRows(id)) <= 1
        /\ ( /\ Cardinality(TasksOn(id)) >= 2
             /\ \A pi \in TasksOn(id) :
                   /\ tasks[pi[1]][pi[2]].pc = "done"
                   /\ tasks[pi[1]][pi[2]].text # NoText )
           => /\ Cardinality(ContentRows(id)) = 1
              /\ \A pi \in TasksOn(id) : tasks[pi[1]][pi[2]].result = "success"
              /\ StatusOf(id) = "crawl_success"

\* Two workers have fetched text for article 1 and finished: one row.
C2_Witness ==
    /\ Cardinality(TasksOn(1)) >= 2
    /\ \A pi \in TasksOn(1) :
          /\ tasks[pi[1]][pi[2]].pc = "done"
          /\ tasks[pi[1]][pi[2]].text # NoText
          /\ tasks[pi[1]][pi[2]].result = "success"
    /\ Len(crawled_news) = 1

\* C5 (terminal statuses), as claimed: a row whose status is crawl_success,
\* crawl_failed or url_filtered keeps that status in every step.
C5_TerminalStatuses ==
    [][\A id \in 1..Len(naver_news) :
          StatusOf(id) \in Terminal
              => naver_news'[id].crawl_status = StatusOf(id)]_vars

\* The places of a task past its claim where a statement can fail.
AfterClaim == {"insert", "mark_success", "duplicate", "mark_failed"}

\* C6 (crawler error handling), as claimed: when a statement failed in a task
\* after its claim, the task has reported failed, the row's final status is
\* crawl_failed, and the rows of the tasks that met no error have a final
\* status.
C6_ErrorHandling ==
    (ppc[1] = "done" /\ crawl_result[1] # NULL) =>
        \A i \in DOMAIN tasks[1] :
            tasks[1][i].fault_at \in AfterClaim =>
                /\ tasks[1][i].result = "failed"
                /\ StatusOf(tasks[1][i].news_id) = "crawl_failed"
                /\ \A j \in DOMAIN tasks[1] :
                      tasks[1][j].fault_at = NULL
                          => StatusOf(tasks[1][j].news_id) \in Final

\* The Crawler has touched row id: it is or was crawling, or has content.
Touched(id) ==
    \/ StatusOf(id) \in {"crawling", "crawl_success", "crawl_failed"}
    \/ naver_news[id].crawl_attempt_count > 0
    \/ ContentRows(id) # {}

\* C14 (crawler selection): every task works on a row that was pending and
\* stamped with a filter version when crawl_news() selected it, and only rows
\* with a task are claimed, fetched or given a content row; a row with no
\* filter version (one the Harvester inserted after filter_urls()) has no
\* task, is untouched and pending, and a url_filtered row has no task and is
\* untouched.
C14_CrawlerSelection ==
    /\ \A p \in Procs : \A i \in DOMAIN tasks[p] :
          /\ tasks[p][i].sel_status = "pending"
          /\ tasks[p][i].sel_version # NULL
    /\ \A id \in 1..Len(naver_news) :
          /\ Touched(id) => TasksOn(id) # {}
          /\ naver_news[id].url_filter_version = NULL =>
                /\ TasksOn(id) = {}
                /\ StatusOf(id) = "pending"
          /\ StatusOf(id) = "url_filtered" => TasksOn(id) = {}

\* While a task of the run is at work on a row, the store holds a row without
\* filter version, inserted by the Harvester after filter_urls() had run.
C14_Witness ==
    /\ ppc[1] = "pool"
    /\ \E i \in DOMAIN tasks[1] : tasks[1][i].pc \in {"fetch", "insert", "mark_success"}
    /\ \E id \in 1..Len(naver_news) :
          /\ naver_news[id].url_filter_version = NULL
          /\ StatusOf(id) = "pending"

\* C17 (attempt counter), as claimed: in every step a row's
\* crawl_attempt_count grows by 1 if the step takes the row from pending to
\* crawling and stays as it is otherwise; it never decreases.
C17_AttemptCounter ==
    [][\A id \in 1..Len(naver_news) :
          naver_news'[id].crawl_attempt_count =
              naver_news[id].crawl_attempt_count
                  + (IF StatusOf(id) = "pending"
                        /\ naver_news'[id].crawl_status = "crawling"
                     THEN 1 ELSE 0)]_vars

\* The tasks of process p a pool thread is running.
Active(p) == {i \in DOMAIN tasks[p] : tasks[p][i].pc \notin {"queued", "done"}}

PoolBounded(p) ==
    /\ Cardinality(Active(p)) <= max_workers
    /\ \A i, j \in DOMAIN tasks[p] : i # j => tasks[p][i].news_id # tasks[p][j].news_id
    /\ \A i \in DOMAIN tasks[p] :
          IF i \in Active(p) THEN tasks[p][i].worker \in 1..max_workers
          ELSE tasks[p][i].worker = 0
    /\ \A i, j \in Active(p) : i # j => tasks[p][i].worker # tasks[p][j].worker

\* While the pool of process p runs, the task list is fixed, a task that has
\* started is never queued again, stays with its thread until it is done, and
\* a task that is done stays done.
NoRequeue(p) ==
    (ppc[p] = "pool" /\ ppc'[p] = "pool") =>
        /\ Len(tasks'[p]) = Len(tasks[p])
        /\ \A i \in DOMAIN tasks[p] :
              /\ tasks'[p][i].news_id = tasks[p][i].news_id
              /\ tasks[p][i].pc # "queued" => tasks'[p][i].pc # "queued"
              /\ tasks[p][i].pc = "done" => tasks'[p][i] = tasks[p][i]
              /\ (i \in Active(p) /\ tasks'[p][i].pc # "done")
                    => tasks'[p][i].worker = tasks[p][i].worker

\* C18 (bounded worker pool): in a run with pool width max_workers at most
\* that many rows are between claim and finalize at any moment; every selected
\* row has exactly one task, which is started once and never queued again; and
\* a pool thread runs one task at a time, from its claim to its end, before it
\* takes the next.
C18_BoundedPool ==
    /\ [](\A p \in Procs : PoolBounded(p))
    /\ [][\A p \in Procs : NoRequeue(p)]_vars

\* The pool is full: as many tasks run as there are threads, one of them past
\* its claim, and a submitted task waits.
C18_Witness ==
    /\ ppc[1] = "pool"
    /\ Cardinality(Active(1)) = max_workers
    /\ \E i \in Active(1) : tasks[1][i].pc \in {"fetch", "insert", "mark_failed"}
    /\ \E j \in DOMAIN tasks[1] : tasks[1][j].pc = "queued"

\* A crawl_success row has exactly one content row, and a row with a content
\* row is crawl_success.
StatusMatchesContent ==
    \A id \in 1..Len(naver_news) :
        /\ StatusOf(id) = "crawl_success" => Cardinality(ContentRows(id)) = 1
        /\ ContentRows(id) # {} => StatusOf(id) = "crawl_success"

\* The rows process p selected.
Selected(p) == {tasks[p][i].news_id : i \in DOMAIN tasks[p]}

\* The counts crawl_news() of process p returned are those of the store.
CountsMatchStore(p) ==
    (ppc[p] = "done" /\ crawl_result[p] # NULL) =>
        /\ crawl_result[p][1]
              = Cardinality({id \in Selected(p) : ContentRows(id) # {}})
        /\ crawl_result[p][2]
              = Cardinality({id \in Selected(p) : StatusOf(id) = "crawl_failed"})

\* C19 (status and content), as claimed: in every state a crawl_success row
\* has exactly one content row and a row with a content row is crawl_success;
\* and when a run of crawl_news() has returned, its successCount is the number
\* of selected rows with a content row and its failedCount the number of
\* selected rows with status crawl_failed.
C19_StatusContent == StatusMatchesContent /\ CountsMatchStore(1)

(***************************************************************************)
(* Properties of run().                                                    *)
(***************************************************************************)
\* The content rows of article id hold exactly one row, with text t.
OneContentRow(id, t) ==
    /\ Cardinality(ContentRows(id)) = 1
    /\ \A k \in ContentRows(id) : crawled_news[k].text = t

\* C11 (end to end): when run() has ended, every row that was fresh (pending,
\* no filter version, attempt count 0) and whose host matches no blocklist
\* entry was handed to a task, and if its fetch returned a text t the row has
\* status crawl_success, the current filter version, attempt count 1 and
\* exactly one content row, whose text is t.
C11_EndToEnd ==
    ppc[1] = "done" =>
        \A id \in 1..Len(naver_news) :
            ~is_url_filtered(naver_news[id].url) =>
                \E i \in DOMAIN tasks[1] :
                    /\ tasks[1][i].news_id = id
                    /\ tasks[1][i].text # NoText =>
                          /\ StatusOf(id) = "crawl_success"
                          /\ naver_news[id].url_filter_version = filter_version
                          /\ naver_news[id].crawl_attempt_count = 1
                          /\ OneContentRow(id, tasks[1][i].text)

\* run() has ended and a fetched text is stored for a row that passed.
C11_Witness ==
    /\ ppc[1] = "done"
    /\ \E i \in DOMAIN tasks[1] :
          /\ tasks[1][i].text \in Texts
          /\ StatusOf(tasks[1][i].news_id) = "crawl_success"
          /\ OneContentRow(tasks[1][i].news_id, tasks[1][i].text)

\* C12 (crawler run result), as claimed: when run() has returned, the value it
\* returned is the triple of the value filter_urls() returned and the two
\* values crawl_news() returned.
C12_RunResult ==
    ppc[1] = "done" =>
        run_result[1] = PyTuple(<<filtered_count[1], crawl_result[1][1],
                                  crawl_result[1][2]>>)

====
